---- MODULE Spec2Model ----
(***************************************************************************)
(* The session and credential lifecycle of ProgKeeper-Controller:          *)
(* progkeeper/database/auth.py, progkeeper/database/user.py and the        *)
(* endpoints of progkeeper/api.py that call them.                          *)
(*                                                                         *)
(* Every request is a process.  A process takes one step per SQL           *)
(* statement (each on its own connection, committed at once) and one step  *)
(* per reading of the clock that is separated from the next statement, so  *)
(* that requests interleave the way concurrent workers of the API do.      *)
(* Strings the code inspects character by character (usernames and         *)
(* passwords) are sequences of one-character strings.                      *)
(***************************************************************************)
EXTENDS Integers, Sequences, FiniteSets, TLC

\* ------------------------------------------------------------------ bounds

\* Number of concurrent requests (API workers).
NumProcs == 2
\* Number of values secrets.token_hex(32) can return.
NumTokens == 2
\* Number of requests started in one behaviour of concurrent requests.
MaxOps == 2
\* Number of requests started in one behaviour of requests one after the
\* other.
MaxSeqOps == 3

\* ------------------------------------------------------- program constants

\* 60 * 60 * 24 * 14: sessions last 14 days without renewal.
SESSION_TTL == 1209600
\* Login.validate_username: 1..50 characters after normalisation.
USERNAME_MIN == 1
USERNAME_MAX == 50
\* Login.validate_password: 6..72 characters.
PASSWORD_MIN == 6
PASSWORD_MAX == 72
\* Registration.validate_nickname: 1..50 characters.
NICKNAME_MIN == 1
NICKNAME_MAX == 50

\* HTTP status codes of the endpoints.
HTTP_200_OK == 200
HTTP_201_CREATED == 201
HTTP_202_ACCEPTED == 202
HTTP_400_BAD_REQUEST == 400
HTTP_401_UNAUTHORIZED == 401
HTTP_403_FORBIDDEN == 403
HTTP_422_UNPROCESSABLE == 422
HTTP_500_INTERNAL_SERVER_ERROR == 500

\* ------------------------------------------------------------- characters

UPPERCASE ==
    <<"A","B","C","D","E","F","G","H","I","J","K","L","M",
      "N","O","P","Q","R","S","T","U","V","W","X","Y","Z">>

LOWERCASE ==
    <<"a","b","c","d","e","f","g","h","i","j","k","l","m",
      "n","o","p","q","r","s","t","u","v","w","x","y","z">>

DIGITS == <<"0","1","2","3","4","5","6","7","8","9">>

\* The characters str.strip() removes from both ends.
WHITESPACE == {" ", "\t", "\n", "\r"}

Range(s) == {s[i] : i \in DOMAIN s}

\* valid_username_chars of Login.validate_username.
valid_username_chars ==
    Range(LOWERCASE) \cup Range(UPPERCASE) \cup Range(DIGITS) \cup {"-", "_", "."}

\* str.lower() on one character.
lower_char(c) ==
    IF \E i \in DOMAIN UPPERCASE : UPPERCASE[i] = c
    THEN LOWERCASE[CHOOSE i \in DOMAIN UPPERCASE : UPPERCASE[i] = c]
    ELSE c

\* str.lower()
lower(s) == [i \in DOMAIN s |-> lower_char(s[i])]

RECURSIVE lstrip(_)
lstrip(s) ==
    IF s # <<>> /\ Head(s) \in WHITESPACE THEN lstrip(Tail(s)) ELSE s

RECURSIVE rstrip(_)
rstrip(s) ==
    IF s # <<>> /\ s[Len(s)] \in WHITESPACE
    THEN rstrip(SubSeq(s, 1, Len(s) - 1))
    ELSE s

\* str.strip()
strip(s) == rstrip(lstrip(s))

\* ------------------------------------------------- pydantic models (user.py)

\* A validator that trims the value and keeps its case.
validate_username_nolower(value) ==
    LET v == strip(value) IN
    IF Len(v) < USERNAME_MIN \/ Len(v) > USERNAME_MAX
    THEN [ok |-> FALSE, value |-> v,
          error |-> "Username must be between 1 and 50 characters."]
    ELSE IF \E i \in DOMAIN v : v[i] \notin valid_username_chars
    THEN [ok |-> FALSE, value |-> v,
          error |-> "Username contains invalid characters."]
    ELSE [ok |-> TRUE, value |-> v, error |-> ""]

\* A validator that checks the length only.
validate_username_any_chars(value) ==
    LET v == lower(strip(value)) IN
    IF Len(v) < USERNAME_MIN \/ Len(v) > USERNAME_MAX
    THEN [ok |-> FALSE, value |-> v,
          error |-> "Username must be between 1 and 50 characters."]
    ELSE [ok |-> TRUE, value |-> v, error |-> ""]

\* Login.validate_username: the normalised value, or the ValueError raised.
validate_username(value) ==
    LET v == lower(strip(value)) IN
    IF Len(v) < USERNAME_MIN \/ Len(v) > USERNAME_MAX
    THEN [ok |-> FALSE, value |-> v,
          error |-> "Username must be between 1 and 50 characters."]
    ELSE IF \E i \in DOMAIN v : v[i] \notin valid_username_chars
    THEN [ok |-> FALSE, value |-> v,
          error |-> "Username contains invalid characters."]
    ELSE [ok |-> TRUE, value |-> v, error |-> ""]

\* Login.validate_password
validate_password(value) ==
    IF Len(value) < PASSWORD_MIN \/ Len(value) > PASSWORD_MAX
    THEN [ok |-> FALSE, value |-> value,
          error |-> "Password must be between 6 and 72 characters long."]
    ELSE [ok |-> TRUE, value |-> value, error |-> ""]

\* The absent nickname (None).
None == <<"None">>

\* Registration.nickname_from_username: a missing or blank nickname becomes
\* the username as it was sent.
nickname_from_username(username, nickname) ==
    IF nickname # None /\ strip(nickname) # <<>> THEN nickname ELSE username

\* Registration.validate_nickname
validate_nickname(value) ==
    IF Len(value) < NICKNAME_MIN \/ Len(value) > NICKNAME_MAX
    THEN [ok |-> FALSE, value |-> value,
          error |-> "Nickname must be between 1 and 50 characters."]
    ELSE [ok |-> TRUE, value |-> value, error |-> ""]

\* The Login model: both fields validated, the username normalised.
LoginModel(username, password) ==
    LET u == validate_username(username)
        w == validate_password(password)
    IN [ok |-> u.ok /\ w.ok, username |-> u.value, password |-> w.value]

\* The Registration model: Login plus the nickname.
RegistrationModel(username, password, nickname) ==
    LET l == LoginModel(username, password)
        n == validate_nickname(nickname_from_username(username, nickname))
    IN [ok |-> l.ok /\ n.ok, username |-> l.username,
        password |-> l.password, nickname |-> n.value]

\* --------------------------------------------------- passwords (auth.py)

\* str.encode('utf-8') on one character: its bytes.
utf8_char(c) ==
    IF c = "é" THEN <<"0xC3", "0xA9">> ELSE <<c>>

\* str.encode('utf-8')
RECURSIVE encode_utf8(_)
encode_utf8(s) ==
    IF s = <<>> THEN <<>> ELSE utf8_char(Head(s)) \o encode_utf8(Tail(s))

\* The longest input bcrypt hashes, in bytes.
BcryptMaxBytes == PASSWORD_MAX

\* What the installed bcrypt can do with the password bytes: hash them, or,
\* when they are more than 72, hash the first 72 (bcrypt before 5.0) or
\* raise ValueError (bcrypt 5.0 and later).  The repository pins no version.
bcrypt_outcomes(password_bytes) ==
    IF Len(password_bytes) > BcryptMaxBytes
    THEN {"truncated", "ValueError"}
    ELSE {"hashed"}

\* The bytes bcrypt hashes: at most the first 72.
bcrypt_digest(password_bytes) ==
    IF Len(password_bytes) > BcryptMaxBytes
    THEN SubSeq(password_bytes, 1, BcryptMaxBytes)
    ELSE password_bytes

\* bcrypt.hashpw when it returns: the digest of the password bytes under the
\* salt, with the salt kept in the output.
bcrypt_hashpw(password_bytes, salt) ==
    [salt |-> salt, digest |-> bcrypt_digest(password_bytes)]

\* bcrypt.checkpw: hashes again under the salt of the stored hash.
bcrypt_checkpw(password_bytes, hashed) ==
    bcrypt_hashpw(password_bytes, hashed.salt) = hashed

\* hash_password, given the salt bcrypt.gensalt() drew.
hash_password(password, salt) ==
    bcrypt_hashpw(encode_utf8(password), salt)

\* A check that accepts every password.
verify_password_any(plaintext_password, hashed_password) == TRUE

verify_password(plaintext_password, hashed_password) ==
    bcrypt_checkpw(encode_utf8(plaintext_password), hashed_password)

\* ------------------------------------------------------------ json (auth.py)

\* The punctuation of a JSON array of strings.
JSON_PUNCT == {"[", "]", ","}

RECURSIVE json_items(_)
json_items(l) ==
    IF l = <<>> THEN <<>>
    ELSE IF Len(l) = 1 THEN <<l[1]>>
    ELSE <<l[1], ",">> \o json_items(Tail(l))

\* json.dumps of a list of strings: the text, one lexical token per element.
json_dumps(l) == <<"[">> \o json_items(l) \o <<"]">>

\* json.loads of such a text.
json_loads(text) == SelectSeq(text, LAMBDA tok : tok \notin JSON_PUNCT)

\* ------------------------------------------------------------------ inputs

Procs == 1..NumProcs

\* secrets.token_hex(32): the i-th of the values it can return.  A token is a
\* non-empty sequence; the empty sequence is the empty string.
token_hex(i) == <<"hex", i>>

Tokens == {token_hex(i) : i \in 1..NumTokens}

\* http_auth.credentials: a token the server may have issued, or the empty
\* string.
BearerTokens == Tokens \cup {<<>>}

\* request.client.host
IPs == {"1.2.3.4", "5.6.7.8"}

\* Usernames as clients send them at registration: a name, and one with a
\* space inside.
RegisterUsernames == { <<"B","o","b">>, <<"b"," ","b">> }

\* Usernames as clients send them at login: two spellings of the name.
LoginUsernames == { <<"B","o","b">>, <<" ","b","o","b">> }

\* Passwords as clients send them: the one registered with, and another.
RegisterPasswords == { <<"s","e","c","r","e","t">> }

LoginPasswords == { <<"s","e","c","r","e","t">>, <<"h","u","n","t","e","r","2">> }

\* The spelling under which the registered user logs in again.
ReturningUsernames == { <<" ","b","o","b">> }

\* Usernames of registrations that arrive together: three spellings of one
\* name and another name.
SignupUsernames ==
    { <<"B","o","b">>, <<" ","b","o","b">>, <<"b","o","b">>, <<"E","v","e">> }

\* Usernames that exercise the validator: the two examples of the
\* specification, the normal form of the first, a blank one, one of 50
\* characters, one of 51, and one of 50 with a space before it.
InputUsernames ==
    { <<" "," ","F","o","o","_","B","a","r"," ">>,
      <<"f","o","o","_","b","a","r">>,
      <<"f","o","o"," ","b","a","r","!">>,
      <<" ">>,
      [i \in 1..USERNAME_MAX |-> "a"],
      [i \in 1..(USERNAME_MAX + 1) |-> "a"],
      <<" ">> \o [i \in 1..USERNAME_MAX |-> "A"] }

\* Nicknames as clients send them: none, a blank one and a name.
InputNicknames == { None, <<" ">>, <<"N","i","c","k">> }

\* The usernames of logins when "Eve" is the registered user.
FrameUsernames == { <<" ","b","o","b">>, <<"E","v","e">> }

\* bcrypt.gensalt(): the salt it draws.
Salts == {"saltA"}

\* The values of the clock: the start, a second later, and the moment a
\* session made at the start expires.
Instants == {0, 1, SESSION_TTL}

\* The protected endpoints a request can name: one that only authenticates
\* (import_internal_data) and logout.
Endpoints == {"import_internal_data", "logout"}

\* ------------------------------------------------------------------- state

VARIABLES
    now,        \* now_utc(): the clock, in seconds
    ops,        \* how many requests were started
    users,      \* table users: rows [id, username, password, nickname]
    user_seq,   \* AUTO_INCREMENT of users.id: the last id given out
    sessions,   \* table sessions: rows [id, user_id, user_ip, expiry]
    pc,         \* per request: the statement it executes next
    loc,        \* per request: its live local variables and its response
    accepted    \* history: the <<username as sent, password>> of every
                \* registration that succeeded

vars == <<now, ops, users, user_seq, sessions, pc, loc, accepted>>

NoHash == [salt |-> "", digest |-> <<>>]

\* The locals of a request that has not started.  A local holds its value
\* from its assignment to its last use.
Blank ==
    [ op |-> "none",             \* the endpoint
      route |-> "",              \* the endpoint the request names, when it
                                 \* is read before security_bridge returns
      raw |-> <<>>,              \* the username as sent (kept as history)
      sent_nickname |-> <<>>,    \* the nickname as sent (kept as history)
      username |-> <<>>,         \* user.username (validated)
      password |-> <<>>,         \* user.password
      nickname |-> <<>>,         \* user.nickname
      hashed |-> NoHash,         \* hashed_password
      ip |-> "",                 \* request.client.host
      session_id |-> <<>>,       \* session_id
      user_id |-> 0,             \* user_id
      expiry |-> 0,              \* expiry_utc / updated_expiry
      current_expiry |-> 0,      \* current_expiry
      ip_json |-> <<>>,          \* ip_json
      ip_list |-> <<>>,          \* ip_list
      refreshed |-> "not called",\* what refresh_session returned
      returned |-> <<>>,         \* direct call: the value returned or the
                                 \* exception raised, <<kind, value>>
      known |-> FALSE,           \* history: the credentials were those of an
                                 \* accepted registration when the call began
      status |-> 0,              \* HTTP status of the response
      detail |-> "" ]            \* detail of the response

SessionIds == {r.id : r \in sessions}

SessionsWithId(id) == {r \in sessions : r.id = id}

UsersNamed(username) == {u \in users : u.username = username}

\* Worker p can take a request: it has none in progress.  Workers are
\* interchangeable and are taken into use in order, each keeping its last
\* response until it takes the next request.
Free(p) ==
    /\ pc[p] \in {"idle", "done"}
    /\ \A q \in Procs : q < p => pc[q] # "idle"

\* The response is sent.
Respond(p, l) ==
    /\ pc' = [pc EXCEPT ![p] = "done"]
    /\ loc' = [loc EXCEPT ![p] = l]

Goto(p, label, l) ==
    /\ pc' = [pc EXCEPT ![p] = label]
    /\ loc' = [loc EXCEPT ![p] = l]

\* The response of endpoint op: what the client and the caller observe.
Response(op, status, detail) ==
    [Blank EXCEPT !.op = op, !.status = status, !.detail = detail]

\* The database after setup_database: no rows.
Init ==
    /\ now = 0
    /\ ops = 0
    /\ users = {}
    /\ user_seq = 0
    /\ sessions = {}
    /\ pc = [p \in Procs |-> "idle"]
    /\ loc = [p \in Procs |-> Blank]
    /\ accepted = {}

\* ------------------------------------------------------ the storage engine

\* An engine that accepts every username.
users_username_unchecked(username) == FALSE

\* The uniqueness constraint on users.username: an INSERT of a username that
\* is already stored is rejected.
users_username_taken(username) == UsersNamed(username) # {}

\* An engine that accepts every id.
sessions_id_unchecked(id) == FALSE

\* The uniqueness constraint on sessions.id: an INSERT of an id that is
\* already stored is rejected.
sessions_id_taken(id) == SessionsWithId(id) # {}

\* An engine without the foreign key: any user_id is taken.
sessions_user_unchecked(user_id) == FALSE

\* The foreign key of sessions.user_id: an INSERT into sessions is rejected
\* when no row of users has the id.
sessions_user_missing(user_id) == \A u \in users : u.id # user_id

\* What the foreign key does when a referenced row of users is deleted: the
\* DELETE is rejected, or the referring sessions are deleted with it.
ForeignKeyActions == {"RESTRICT", "CASCADE"}

\* The spec's normal form of a username: trimmed and lower-cased.
NormalForm(raw) == lower(strip(raw))

\* --------------------------------------------------- POST /user/create

\* The row create_user inserts (lines 133-136).
user_row(id, username, hashed_password, nickname) ==
    [id |-> id, username |-> username, password |-> hashed_password,
     nickname |-> nickname]

\* register: the Registration model is validated, then create_user hashes
\* the password (line 123).
register(p, raw, password, nickname, salt) ==
    /\ Free(p)
    /\ ops' = ops + 1
    /\ LET m == RegistrationModel(raw, password, nickname) IN
         IF ~m.ok
         THEN Respond(p, [Response("register", HTTP_422_UNPROCESSABLE,
                                   "validation error")
                            EXCEPT !.raw = raw, !.password = password,
                                   !.sent_nickname = nickname])
         ELSE \E outcome \in bcrypt_outcomes(encode_utf8(m.password)) :
                IF outcome = "ValueError"
                THEN Respond(p, Response("register", HTTP_400_BAD_REQUEST,
                        "Failed to create user: password cannot be longer than 72 bytes"))
                ELSE Goto(p, "create_user_select",
                       [Blank EXCEPT !.op = "register", !.raw = raw,
                                     !.sent_nickname = nickname,
                                     !.username = m.username,
                                     !.password = m.password,
                                     !.nickname = m.nickname,
                                     !.hashed = hash_password(m.password, salt)])
    /\ UNCHANGED <<now, users, user_seq, sessions, accepted>>

\* create_user, the SELECT (lines 126-131).
create_user_select(p) ==
    /\ pc[p] = "create_user_select"
    /\ IF UsersNamed(loc[p].username) # {}
       THEN Respond(p, Response(loc[p].op, HTTP_400_BAD_REQUEST,
                "Failed to create user: Username already exists."))
       ELSE Goto(p, "create_user_insert", loc[p])
    /\ UNCHANGED <<now, ops, users, user_seq, sessions, accepted>>

\* create_user, the INSERT and the commit (lines 133-140).
create_user_insert(p) ==
    /\ pc[p] = "create_user_insert"
    /\ IF users_username_taken(loc[p].username)
       THEN /\ Respond(p, Response(loc[p].op, HTTP_500_INTERNAL_SERVER_ERROR,
                                   "IntegrityError"))
            /\ UNCHANGED <<users, user_seq, accepted>>
       ELSE /\ user_seq' = user_seq + 1
            /\ users' = users \cup
                 {user_row(user_seq + 1, loc[p].username, loc[p].hashed,
                           loc[p].nickname)}
            /\ accepted' = accepted \cup {<<loc[p].raw, loc[p].password>>}
            /\ Respond(p, [Response(loc[p].op, HTTP_201_CREATED,
                                    "Created user successfully.")
                             EXCEPT !.user_id = user_seq + 1])
    /\ UNCHANGED <<now, ops, sessions>>

\* -------------------------------------------------- POST /session/create

\* login: the Login model is validated, then create_session reads the clock
\* (line 146).
login(p, raw, password, ip) ==
    /\ Free(p)
    /\ ops' = ops + 1
    /\ LET m == LoginModel(raw, password) IN
         IF ~m.ok
         THEN Respond(p, [Response("login", HTTP_422_UNPROCESSABLE,
                                   "validation error")
                            EXCEPT !.raw = raw, !.password = password])
         ELSE Goto(p, "create_session_select",
                   [Blank EXCEPT
                      !.op = "login", !.raw = raw, !.username = m.username,
                      !.password = m.password, !.ip = ip,
                      !.expiry = now + SESSION_TTL,
                      !.known = \E a \in accepted :
                                   /\ NormalForm(a[1]) = NormalForm(raw)
                                   /\ a[2] = password])
    /\ UNCHANGED <<now, users, user_seq, sessions, accepted>>

\* create_session, the SELECT and verify_password (lines 149-161).
create_session_select(p) ==
    /\ pc[p] = "create_session_select"
    /\ IF UsersNamed(loc[p].username) = {}
       THEN Respond(p, [Response("login", HTTP_400_BAD_REQUEST,
                           "Failed to create session: Invalid username.")
                          EXCEPT !.raw = loc[p].raw, !.known = loc[p].known])
       ELSE \E row \in UsersNamed(loc[p].username),
               outcome \in bcrypt_outcomes(encode_utf8(loc[p].password)) :
              IF outcome = "ValueError"
              THEN Respond(p, [Response("login", HTTP_400_BAD_REQUEST,
                      "Failed to create session: password cannot be longer than 72 bytes")
                                 EXCEPT !.raw = loc[p].raw,
                                        !.known = loc[p].known])
              ELSE IF ~verify_password(loc[p].password, row.password)
              THEN Respond(p, [Response("login", HTTP_400_BAD_REQUEST,
                                  "Failed to create session: Invalid password.")
                                 EXCEPT !.raw = loc[p].raw,
                                        !.known = loc[p].known])
              ELSE Goto(p, "generate_session_id",
                        [loc[p] EXCEPT !.user_id = row.id,
                                       !.username = <<>>, !.password = <<>>])
    /\ UNCHANGED <<now, ops, users, user_seq, sessions, accepted>>

\* A generator that returns the same value at every call.
token_hex_repeating == {token_hex(1)}

\* The values secrets.token_hex(32) can return (lines 71 and 74).
token_hex_candidates == Tokens

\* generate_session_id: one candidate and its session_id_is_in_use check;
\* a candidate in use sends the loop round again (lines 71-75).
generate_session_id(p) ==
    /\ pc[p] = "generate_session_id"
    /\ \E candidate \in token_hex_candidates :
         IF SessionsWithId(candidate) # {}
         THEN UNCHANGED <<pc, loc>>
         ELSE Goto(p, "create_session_insert",
                   [loc[p] EXCEPT !.session_id = candidate])
    /\ UNCHANGED <<now, ops, users, user_seq, sessions, accepted>>

\* A row whose audit list starts empty.
session_row_without_ip(session_id, user_id, ip_address, expiry_utc) ==
    [id |-> session_id, user_id |-> user_id,
     user_ip |-> json_dumps(<<>>), expiry |-> expiry_utc]

\* The row create_session inserts (lines 164-167).
session_row(session_id, user_id, ip_address, expiry_utc) ==
    [id |-> session_id, user_id |-> user_id,
     user_ip |-> json_dumps(<<ip_address>>), expiry |-> expiry_utc]

\* create_session, the INSERT and the commit (lines 164-169).  The response
\* carries the session id; the history keeps the expiry it was given.
create_session_insert(p) ==
    /\ pc[p] = "create_session_insert"
    /\ IF \/ sessions_id_taken(loc[p].session_id)
          \/ sessions_user_missing(loc[p].user_id)
       THEN /\ Respond(p, [Response("login", HTTP_500_INTERNAL_SERVER_ERROR,
                                    "IntegrityError")
                             EXCEPT !.raw = loc[p].raw,
                                    !.known = loc[p].known])
            /\ UNCHANGED sessions
       ELSE /\ sessions' = sessions \cup
                 {session_row(loc[p].session_id, loc[p].user_id, loc[p].ip,
                              loc[p].expiry)}
            /\ Respond(p, [Response("login", HTTP_200_OK,
                                    "Created session successfully.")
                             EXCEPT !.raw = loc[p].raw,
                                    !.session_id = loc[p].session_id,
                                    !.expiry = loc[p].expiry,
                                    !.known = loc[p].known])
    /\ UNCHANGED <<now, ops, users, user_seq, accepted>>

\* ------------------------------------------- requests behind security_bridge

\* A request to a protected endpoint arrives with a bearer token.  Which
\* endpoint it names is not read before security_bridge returns, and is
\* chosen there.
request(p, token, ip) ==
    /\ Free(p)
    /\ ops' = ops + 1
    /\ Goto(p, "validate_session_id",
            [Blank EXCEPT !.op = "request", !.session_id = token, !.ip = ip])
    /\ UNCHANGED <<now, users, user_seq, sessions, accepted>>

\* A query that also accepts a session at the instant of its expiry.
session_is_valid_at_expiry(session_id, t) ==
    /\ Len(session_id) # 0
    /\ \E r \in sessions : r.id = session_id /\ r.expiry >= t

\* The query of validate_session_id at time t (lines 25-32).
session_is_valid(session_id, t) ==
    /\ Len(session_id) # 0
    /\ \E r \in sessions : r.id = session_id /\ r.expiry > t

\* security_bridge: validate_session_id, or 401 (api.py lines 43-45).
validate_session_id(p) ==
    /\ pc[p] = "validate_session_id"
    /\ IF ~session_is_valid(loc[p].session_id, now)
       THEN Respond(p, [Response("request", HTTP_401_UNAUTHORIZED,
                           "Invalid or missing authentication credentials.")
                          EXCEPT !.session_id = loc[p].session_id])
       ELSE Goto(p, "refresh_session", loc[p])
    /\ UNCHANGED <<now, ops, users, user_seq, sessions, accepted>>

\* refresh_session has returned `result` to security_bridge, which ignores it
\* and hands over to the endpoint: import_internal_data answers at once,
\* logout goes on to delete_session, logout_all to
\* delete_all_sessions_for_user and delete_user to get_user_id_from_session.
refresh_returns(p, session_id, result) ==
    \E endpoint \in IF loc[p].route = "" THEN Endpoints ELSE {loc[p].route} :
      IF endpoint = "logout"
      THEN Goto(p, "delete_session",
                [Blank EXCEPT !.op = endpoint, !.session_id = session_id,
                              !.refreshed = result])
      ELSE IF endpoint = "logout_all"
      THEN Goto(p, "delete_all_resolve",
                [Blank EXCEPT !.op = endpoint, !.session_id = session_id,
                              !.refreshed = result])
      ELSE IF endpoint = "delete_user"
      THEN Goto(p, "delete_user",
                [Blank EXCEPT !.op = endpoint, !.session_id = session_id,
                              !.refreshed = result])
      ELSE Respond(p, [Response(endpoint, HTTP_202_ACCEPTED,
                                "Not implemented yet.")
                         EXCEPT !.session_id = session_id,
                                !.refreshed = result])

\* refresh_session, line 38: the new expiry is computed from the clock.
refresh_session(p) ==
    /\ pc[p] = "refresh_session"
    /\ Goto(p, "refresh_select", [loc[p] EXCEPT !.expiry = now + SESSION_TTL])
    /\ UNCHANGED <<now, ops, users, user_seq, sessions, accepted>>

\* refresh_session, the SELECT (lines 40-50).
refresh_select(p) ==
    /\ pc[p] = "refresh_select"
    /\ IF SessionsWithId(loc[p].session_id) = {}
       THEN refresh_returns(p, loc[p].session_id, "False")
       ELSE \E row \in SessionsWithId(loc[p].session_id) :
              Goto(p, "refresh_check",
                   [loc[p] EXCEPT !.current_expiry = row.expiry,
                                  !.ip_json = row.user_ip])
    /\ UNCHANGED <<now, ops, users, user_seq, sessions, accepted>>

\* A list that gains the address whether or not it holds it.
ip_list_always_append(ip_list, user_ip) == Append(ip_list, user_ip)

\* A list that gains a new address at its front.
ip_list_prepend(ip_list, user_ip) ==
    IF user_ip \notin Range(ip_list) THEN <<user_ip>> \o ip_list ELSE ip_list

\* The list refresh_session writes back (lines 53-55).
ip_list_with(ip_list, user_ip) ==
    IF user_ip \notin Range(ip_list) THEN Append(ip_list, user_ip) ELSE ip_list

\* refresh_session, the expiry check against the clock and the new list
\* (lines 51-56).
refresh_check(p) ==
    /\ pc[p] = "refresh_check"
    /\ IF loc[p].current_expiry < now
       THEN refresh_returns(p, loc[p].session_id, "False")
       ELSE Goto(p, "refresh_update",
                 [loc[p] EXCEPT
                    !.ip_list = ip_list_with(json_loads(loc[p].ip_json), loc[p].ip),
                    !.ip_json = <<>>, !.current_expiry = 0])
    /\ UNCHANGED <<now, ops, users, user_seq, sessions, accepted>>

\* An UPDATE that stores the row when no row has the id.
updated_sessions_upsert(session_id, expiry, user_ip) ==
    {IF r.id = session_id
     THEN [r EXCEPT !.expiry = expiry, !.user_ip = user_ip]
     ELSE r : r \in sessions}
    \cup (IF \E r \in sessions : r.id = session_id THEN {}
          ELSE {[id |-> session_id, user_id |-> 1,
                 user_ip |-> user_ip, expiry |-> expiry]})

\* An UPDATE that adds the 14 days to the expiry the row holds.
updated_sessions_additive(session_id, expiry, user_ip) ==
    {IF r.id = session_id
     THEN [r EXCEPT !.expiry = r.expiry + SESSION_TTL, !.user_ip = user_ip]
     ELSE r : r \in sessions}

\* An UPDATE of every session of the user that owns the session.
updated_sessions_of_owner(session_id, expiry, user_ip) ==
    {IF \E o \in SessionsWithId(session_id) : o.user_id = r.user_id
     THEN [r EXCEPT !.expiry = expiry, !.user_ip = user_ip]
     ELSE r : r \in sessions}

\* An UPDATE without its WHERE clause: every row is set.
updated_sessions_any_id(session_id, expiry, user_ip) ==
    {[r EXCEPT !.expiry = expiry, !.user_ip = user_ip] : r \in sessions}

\* The rows of UPDATE sessions SET expiry = ?, user_ip = ? WHERE id = ?.
updated_sessions(session_id, expiry, user_ip) ==
    {IF r.id = session_id
     THEN [r EXCEPT !.expiry = expiry, !.user_ip = user_ip]
     ELSE r : r \in sessions}

\* cursor.rowcount after that UPDATE: the rows it changed (an UPDATE that
\* sets a row to the values it holds affects no row).
update_rowcount(session_id, expiry, user_ip) ==
    Cardinality({r \in sessions :
        /\ r.id = session_id
        /\ [r EXCEPT !.expiry = expiry, !.user_ip = user_ip] # r})

\* refresh_session, the UPDATE, the commit and the result (lines 56-67).
refresh_update(p) ==
    /\ pc[p] = "refresh_update"
    /\ LET user_ip == json_dumps(loc[p].ip_list) IN
         /\ sessions' = updated_sessions(loc[p].session_id, loc[p].expiry, user_ip)
         /\ refresh_returns(p, loc[p].session_id,
              IF update_rowcount(loc[p].session_id, loc[p].expiry, user_ip) > 0
              THEN "True" ELSE "False")
    /\ UNCHANGED <<now, ops, users, user_seq, accepted>>

\* A DELETE that removes every session of the user the id belongs to.
sessions_without_user_of(session_id) ==
    {r \in sessions :
        \A d \in SessionsWithId(session_id) : r.user_id # d.user_id}

\* A DELETE that removes nothing.
sessions_all_kept(session_id) == sessions

\* The rows DELETE FROM sessions WHERE id = ? leaves.
sessions_without(session_id) == {r \in sessions : r.id # session_id}

\* logout: delete_session (lines 174-182) and the response (api.py 84-87).
delete_session(p) ==
    /\ pc[p] = "delete_session"
    /\ sessions' = sessions_without(loc[p].session_id)
    /\ IF SessionsWithId(loc[p].session_id) # {}
       THEN Respond(p, [loc[p] EXCEPT
                !.status = HTTP_200_OK,
                !.detail = "Deleted session successfully."])
       ELSE Respond(p, [loc[p] EXCEPT
                !.status = HTTP_500_INTERNAL_SERVER_ERROR,
                !.detail = "Failed to delete session. It may not exist."])
    /\ UNCHANGED <<now, ops, users, user_seq, accepted>>

\* ------------------------------------------- the functions, called directly

\* The string of n characters c.
Repeat(c, n) == [i \in 1..n |-> c]

\* Passwords handed to the password functions: of 5, 6, 72 and 73
\* characters, and two of 37 characters and 73 bytes that differ in the last
\* character only.
HashPasswords ==
    { Repeat("x", PASSWORD_MIN - 1), Repeat("x", PASSWORD_MIN),
      Repeat("x", PASSWORD_MAX), Repeat("x", PASSWORD_MAX + 1),
      Repeat("é", 36) \o <<"a">>, Repeat("é", 36) \o <<"b">> }

\* bcrypt.gensalt(): two of the salts it can draw.
HashSalts == {"saltA", "saltB"}

\* hash_password(password) (auth.py lines 105-110), the salt being the one
\* bcrypt.gensalt() drew.
call_hash_password(p, password, salt) ==
    /\ Free(p)
    /\ ops' = ops + 1
    /\ \E outcome \in bcrypt_outcomes(encode_utf8(password)) :
         Respond(p, [Blank EXCEPT
            !.op = "hash_password", !.password = password,
            !.returned =
               IF outcome = "ValueError"
               THEN <<"ValueError", "password cannot be longer than 72 bytes">>
               ELSE <<"str", hash_password(password, salt)>>])
    /\ UNCHANGED <<now, users, user_seq, sessions, accepted>>

\* Worker q holds a hash that hash_password returned.
Hashed(q) ==
    /\ pc[q] = "done" /\ loc[q].op = "hash_password"
    /\ loc[q].returned[1] = "str"

\* verify_password(plaintext_password, hashed_password) (lines 112-114), the
\* hash being the one worker q was returned.
call_verify_password(p, plaintext_password, q) ==
    /\ Free(p) /\ q # p /\ Hashed(q)
    /\ ops' = ops + 1
    /\ \E outcome \in bcrypt_outcomes(encode_utf8(plaintext_password)) :
         Respond(p, [Blank EXCEPT
            !.op = "verify_password", !.password = plaintext_password,
            !.hashed = loc[q].returned[2],
            !.returned =
               IF outcome = "ValueError"
               THEN <<"ValueError", "password cannot be longer than 72 bytes">>
               ELSE <<"bool", verify_password(plaintext_password,
                                              loc[q].returned[2])>>])
    /\ UNCHANGED <<now, users, user_seq, sessions, accepted>>

\* create_user(username, unhashed_password, nickname) called directly: the
\* password is hashed (line 123), then the SELECT follows.
call_create_user(p, username, unhashed_password, nickname, salt) ==
    /\ Free(p)
    /\ ops' = ops + 1
    /\ \E outcome \in bcrypt_outcomes(encode_utf8(unhashed_password)) :
         IF outcome = "ValueError"
         THEN Respond(p, [Blank EXCEPT
                 !.op = "create_user", !.password = unhashed_password,
                 !.returned =
                    <<"ValueError", "password cannot be longer than 72 bytes">>])
         ELSE Goto(p, "create_user_select",
                   [Blank EXCEPT
                      !.op = "create_user", !.raw = username,
                      !.username = username, !.password = unhashed_password,
                      !.nickname = nickname,
                      !.hashed = hash_password(unhashed_password, salt)])
    /\ UNCHANGED <<now, users, user_seq, sessions, accepted>>

\* The user ids a caller can name.
UserIds == 1..2

\* validate_session_id(session_id) (auth.py lines 19-34): one query.
call_validate_session_id(p, session_id) ==
    /\ Free(p)
    /\ ops' = ops + 1
    /\ Respond(p, [Blank EXCEPT
          !.op = "validate_session_id", !.session_id = session_id,
          !.returned = <<"bool", session_is_valid(session_id, now)>>])
    /\ UNCHANGED <<now, users, user_seq, sessions, accepted>>

\* A lookup that answers user 1 when no session has the id.
user_id_from_session_or_first(session_id) ==
    IF SessionsWithId(session_id) = {}
    THEN <<"int", 1>>
    ELSE <<"int", (CHOOSE r \in SessionsWithId(session_id) : TRUE).user_id>>

\* A lookup that finds only sessions that have not expired.
user_id_from_live_session(session_id) ==
    IF {r \in SessionsWithId(session_id) : r.expiry > now} = {}
    THEN <<"ValueError", "session not found in database">>
    ELSE <<"int", (CHOOSE r \in SessionsWithId(session_id) : TRUE).user_id>>

\* What get_user_id_from_session returns or raises (lines 87-99).
user_id_from_session(session_id) ==
    IF SessionsWithId(session_id) = {}
    THEN <<"ValueError", "session not found in database">>
    ELSE <<"int", (CHOOSE r \in SessionsWithId(session_id) : TRUE).user_id>>

\* get_user_id_from_session(session_id): one query.
get_user_id_from_session(p, session_id) ==
    /\ Free(p)
    /\ ops' = ops + 1
    /\ Respond(p, [Blank EXCEPT
          !.op = "get_user_id_from_session", !.session_id = session_id,
          !.returned = user_id_from_session(session_id)])
    /\ UNCHANGED <<now, users, user_seq, sessions, accepted>>

\* only_allow_self_action(attempted_user_id, http_auth) (api.py lines
\* 51-67): the ValueError of get_user_id_from_session passes through it.
only_allow_self_action(p, attempted_user_id, session_id) ==
    /\ Free(p)
    /\ ops' = ops + 1
    /\ LET owner == user_id_from_session(session_id) IN
       Respond(p, [Blank EXCEPT
          !.op = "only_allow_self_action", !.session_id = session_id,
          !.user_id = attempted_user_id,
          !.returned =
             IF owner[1] = "ValueError" THEN owner
             ELSE IF owner[2] # attempted_user_id
             THEN <<"HTTPException", HTTP_403_FORBIDDEN>>
             ELSE <<"None", 0>>])
    /\ UNCHANGED <<now, users, user_seq, sessions, accepted>>

\* delete_session(session_id) (auth.py lines 172-182): the DELETE, the
\* commit and the result.
call_delete_session(p, session_id) ==
    /\ Free(p)
    /\ ops' = ops + 1
    /\ sessions' = sessions_without(session_id)
    /\ Respond(p, [Blank EXCEPT
          !.op = "delete_session", !.session_id = session_id,
          !.returned = IF SessionsWithId(session_id) # {}
                       THEN <<"str", session_id>> ELSE <<"str", <<>> >>])
    /\ UNCHANGED <<now, users, user_seq, accepted>>

\* delete_all_sessions_for_user(user_id_or_session) is called, with a user
\* id <<"int", u>> or a session id <<"str", token>> (lines 187-195).
delete_all_sessions_for_user(p, user_id_or_session) ==
    /\ Free(p)
    /\ ops' = ops + 1
    /\ IF user_id_or_session[1] = "str"
       THEN Goto(p, "delete_all_resolve",
                 [Blank EXCEPT !.op = "delete_all_sessions_for_user",
                               !.session_id = user_id_or_session[2]])
       ELSE Goto(p, "delete_all_delete",
                 [Blank EXCEPT !.op = "delete_all_sessions_for_user",
                               !.user_id = user_id_or_session[2]])
    /\ UNCHANGED <<now, users, user_seq, sessions, accepted>>

\* The answer of the endpoint that made the call, when one did: logout_all
\* answers with the count whatever it is (api.py lines 89-93); delete_user
\* passes an exception on and answers by the keys of the data (api.py lines
\* 147-152), where HTTPException is given a keyword, data, it does not take.
Answered(l) ==
    IF l.op = "logout_all"
    THEN [l EXCEPT !.status = HTTP_200_OK,
                   !.detail = "Deleted all sessions for user."]
    ELSE IF l.op = "delete_user"
    THEN IF l.returned[1] # "dict"
         THEN [l EXCEPT !.status = HTTP_500_INTERNAL_SERVER_ERROR,
                        !.detail = l.returned[1]]
         ELSE IF l.returned[3] = None
         THEN [l EXCEPT !.status = HTTP_500_INTERNAL_SERVER_ERROR,
                        !.detail = "TypeError"]
         ELSE [l EXCEPT !.status = HTTP_200_OK,
                        !.detail = "Deleted user successfully."]
    ELSE l

\* delete_all_sessions_for_user, the owner of the token is looked up; the
\* ValueError is caught and 0 returned (lines 187-191).
delete_all_resolve(p) ==
    /\ pc[p] = "delete_all_resolve"
    /\ LET owner == user_id_from_session(loc[p].session_id) IN
         IF owner[1] = "ValueError"
         THEN Respond(p, Answered([loc[p] EXCEPT !.returned = <<"int", 0>>]))
         ELSE Goto(p, "delete_all_delete", [loc[p] EXCEPT !.user_id = owner[2]])
    /\ UNCHANGED <<now, ops, users, user_seq, sessions, accepted>>

\* A DELETE that removes the sessions of every user.
sessions_of_nobody(user_id) == {}

\* A DELETE that removes only the sessions that have not expired.
sessions_of_others_or_expired(user_id) ==
    {r \in sessions : r.user_id # user_id \/ r.expiry <= now}

\* The rows DELETE FROM sessions WHERE user_id = ? leaves.
sessions_of_others(user_id) == {r \in sessions : r.user_id # user_id}

\* delete_all_sessions_for_user, the DELETE, the commit and the rowcount
\* (lines 197-203).
delete_all_delete(p) ==
    /\ pc[p] = "delete_all_delete"
    /\ sessions' = sessions_of_others(loc[p].user_id)
    /\ Respond(p, Answered([loc[p] EXCEPT !.returned =
          <<"int", Cardinality(sessions \ sessions_of_others(loc[p].user_id))>>]))
    /\ UNCHANGED <<now, ops, users, user_seq, accepted>>

\* ------------------------------------------------------- obliterate_user

\* obliterate_user(user_id) is called: data = {} (user.py line 99).
obliterate_user(p, user_id) ==
    /\ Free(p)
    /\ ops' = ops + 1
    /\ Goto(p, "obliterate_purge",
            [Blank EXCEPT !.op = "obliterate_user", !.user_id = user_id])
    /\ UNCHANGED <<now, users, user_seq, sessions, accepted>>

\* obliterate_user, delete_all_sessions_for_user(user_id): the DELETE, the
\* commit and the rowcount, kept as data['deleted_session_count'] (user.py
\* line 103, auth.py lines 197-203).  data is <<"dict", deleted_session_count,
\* deleted_user_id>>, None for a key that is not set.
obliterate_purge(p) ==
    /\ pc[p] = "obliterate_purge"
    /\ sessions' = sessions_of_others(loc[p].user_id)
    /\ Goto(p, "obliterate_delete",
            [loc[p] EXCEPT !.returned =
               <<"dict",
                 Cardinality(sessions \ sessions_of_others(loc[p].user_id)),
                 None>>])
    /\ UNCHANGED <<now, ops, users, user_seq, accepted>>

\* obliterate_user, DELETE FROM users WHERE id = ?, the commit and the
\* rowcount (user.py lines 105-112).  While sessions refer to the user the
\* foreign key rejects the DELETE, the IntegrityError leaving obliterate_user,
\* or deletes the sessions with the user.
obliterate_delete(p) ==
    /\ pc[p] = "obliterate_delete"
    /\ LET user_id == loc[p].user_id
           row == {u \in users : u.id = user_id}
           referring == {r \in sessions : r.user_id = user_id}
       IN
       \E on_delete \in ForeignKeyActions :
          IF row # {} /\ referring # {} /\ on_delete = "RESTRICT"
          THEN /\ Respond(p, Answered([loc[p] EXCEPT !.returned =
                                 <<"IntegrityError", "foreign key">>]))
               /\ UNCHANGED <<users, sessions>>
          ELSE /\ users' = users \ row
               /\ sessions' = IF row # {} THEN sessions \ referring
                                           ELSE sessions
               /\ Respond(p, Answered([loc[p] EXCEPT !.returned =
                     <<"dict", loc[p].returned[2],
                       IF row # {} THEN <<"int", user_id>> ELSE None>>]))
    /\ UNCHANGED <<now, ops, user_seq, accepted>>

\* delete_user, get_user_id_from_session(http_auth.credentials): its
\* ValueError is not caught; with the id, obliterate_user is called (api.py
\* lines 145-147).
delete_user(p) ==
    /\ pc[p] = "delete_user"
    /\ LET owner == user_id_from_session(loc[p].session_id) IN
         IF owner[1] = "ValueError"
         THEN Respond(p, Answered([loc[p] EXCEPT !.returned = owner]))
         ELSE Goto(p, "obliterate_purge", [loc[p] EXCEPT !.user_id = owner[2]])
    /\ UNCHANGED <<now, ops, users, user_seq, sessions, accepted>>

\* A request to a protected endpoint arrives, the endpoint it names read at
\* once.
routed_request(p, token, ip, route) ==
    /\ Free(p)
    /\ ops' = ops + 1
    /\ Goto(p, "validate_session_id",
            [Blank EXCEPT !.op = "request", !.route = route,
                          !.session_id = token, !.ip = ip])
    /\ UNCHANGED <<now, users, user_seq, sessions, accepted>>

\* ----------------------------------------------------------- environment

\* Time passes: the clock moves to a later instant.
tick ==
    /\ \E t \in Instants : t > now /\ now' = t
    /\ UNCHANGED <<ops, users, user_seq, sessions, pc, loc, accepted>>

\* One step of a registration.
register_step(p) ==
    \/ create_user_select(p)
    \/ create_user_insert(p)

\* One step of a login or of a request behind security_bridge.
session_step(p) ==
    \/ create_session_select(p)
    \/ generate_session_id(p)
    \/ create_session_insert(p)
    \/ validate_session_id(p)
    \/ refresh_session(p)
    \/ refresh_select(p)
    \/ refresh_check(p)
    \/ refresh_update(p)
    \/ delete_session(p)

\* A registration arrives.
register_start(p) ==
    \E raw \in RegisterUsernames, password \in RegisterPasswords, salt \in Salts :
      register(p, raw, password, None, salt)

\* A login arrives, its credentials drawn from the given sets.
login_start(p, usernames, passwords) ==
    \E raw \in usernames, password \in passwords, ip \in IPs :
      login(p, raw, password, ip)

\* A request with a bearer token arrives.
request_start(p) ==
    \E token \in BearerTokens, ip \in IPs : request(p, token, ip)

\* A read-only function of auth.py is called directly.
read_start(p) ==
    \E token \in BearerTokens :
      \/ call_validate_session_id(p, token)
      \/ get_user_id_from_session(p, token)

\* No other request is in progress.
Quiet(p) == \A q \in Procs \ {p} : pc[q] \in {"idle", "done"}

\* Requests one after the other, from the empty database: a request starts
\* only when no other is in progress.
SeqNext ==
    \/ tick
    \/ \E p \in Procs :
         \/ ops < MaxSeqOps /\ Quiet(p) /\ register_start(p)
         \/ ops < MaxSeqOps /\ Quiet(p)
              /\ login_start(p, LoginUsernames, LoginPasswords)
         \/ ops < MaxSeqOps /\ Quiet(p) /\ request_start(p)
         \/ register_step(p)
         \/ session_step(p)

SeqSpec == Init /\ [][SeqNext]_vars

\* The database once "Bob" has registered with the first password and has
\* logged in from 1.2.3.4 at time 0: the state create_user_insert and then
\* create_session_insert leave.
LoggedIn ==
    LET raw == <<"B","o","b">>
        password == <<"s","e","c","r","e","t">>
        m == RegistrationModel(raw, password, None)
    IN
    /\ now = 0
    /\ ops = 0
    /\ users = {user_row(1, m.username, hash_password(m.password, "saltA"),
                         m.nickname)}
    /\ user_seq = 1
    /\ sessions = {session_row(token_hex(1), 1, "1.2.3.4", SESSION_TTL)}
    /\ pc = [p \in Procs |-> "idle"]
    /\ loc = [p \in Procs |-> Blank]
    /\ accepted = {<<raw, password>>}

\* Concurrent logins and requests, the user registered and logged in.
Next ==
    \/ tick
    \/ \E p \in Procs :
         \/ ops < MaxOps /\ login_start(p, ReturningUsernames, LoginPasswords)
         \/ ops < MaxOps /\ request_start(p)
         \/ session_step(p)

Spec == LoggedIn /\ [][Next]_vars

\* The database once "Eve" has registered and has logged in from 1.2.3.4
\* at time 0.
EveLoggedIn ==
    LET raw == <<"E","v","e">>
        password == <<"s","e","c","r","e","t">>
        m == RegistrationModel(raw, password, None)
    IN
    /\ now = 0
    /\ ops = 0
    /\ users = {user_row(1, m.username, hash_password(m.password, "saltA"),
                         m.nickname)}
    /\ user_seq = 1
    /\ sessions = {session_row(token_hex(1), 1, "1.2.3.4", SESSION_TTL)}
    /\ pc = [p \in Procs |-> "idle"]
    /\ loc = [p \in Procs |-> Blank]
    /\ accepted = {<<raw, password>>}

\* Concurrent registrations, from the empty database.
SignupNext ==
    \E p \in Procs :
       \/ /\ ops < MaxOps
          /\ \E raw \in SignupUsernames, password \in RegisterPasswords,
                salt \in Salts : register(p, raw, password, None, salt)
       \/ create_user_select(p)
       \/ create_user_insert(p)

SignupSpec == Init /\ [][SignupNext]_vars

\* Registrations and logins one after the other, from the empty database,
\* with usernames and nicknames that exercise the validators.
InputNext ==
    \E p \in Procs :
       \/ /\ ops < MaxOps /\ Quiet(p)
          /\ \E raw \in InputUsernames, password \in RegisterPasswords,
                nickname \in InputNicknames, salt \in Salts :
                register(p, raw, password, nickname, salt)
       \/ /\ ops < MaxOps /\ Quiet(p)
          /\ login_start(p, InputUsernames, RegisterPasswords)
       \/ register_step(p)
       \/ create_session_select(p)
       \/ generate_session_id(p)
       \/ create_session_insert(p)

InputSpec == Init /\ [][InputNext]_vars

\* The password functions and create_user called directly, and
\* registrations, one after the other, from the empty database.
HashNext ==
    \E p \in Procs :
       \/ /\ ops < MaxOps /\ Quiet(p)
          /\ \E password \in HashPasswords, salt \in HashSalts :
                call_hash_password(p, password, salt)
       \/ /\ ops < MaxOps /\ Quiet(p)
          /\ \E password \in HashPasswords, q \in Procs :
                call_verify_password(p, password, q)
       \/ /\ ops < MaxOps /\ Quiet(p)
          /\ \E password \in HashPasswords, salt \in HashSalts :
                call_create_user(p, <<"b","o","b">>, password, None, salt)
       \/ /\ ops < MaxOps /\ Quiet(p)
          /\ \E password \in HashPasswords, salt \in HashSalts :
                register(p, <<"B","o","b">>, password, None, salt)
       \/ create_user_select(p)
       \/ create_user_insert(p)

HashSpec == Init /\ [][HashNext]_vars

\* Every operation that reads or writes the sessions, one after the other,
\* a user registered and logged in: registrations, logins, requests behind
\* security_bridge and direct calls of the read-only functions.
FrameNext ==
    \/ tick
    \/ \E p \in Procs :
         \/ ops < MaxOps /\ Quiet(p) /\ register_start(p)
         \/ ops < MaxOps /\ Quiet(p)
              /\ login_start(p, FrameUsernames, LoginPasswords)
         \/ ops < MaxOps /\ Quiet(p) /\ request_start(p)
         \/ ops < MaxOps /\ Quiet(p) /\ read_start(p)
         \/ register_step(p)
         \/ session_step(p)

FrameSpec == EveLoggedIn /\ [][FrameNext]_vars

\* The database with two users, "Bob" (id 1) and "Eve" (id 2), and any
\* assignment of the tokens to a session of Bob, a session of Eve or no
\* session.  It is time 1: Bob's sessions are live, Eve's expired at time 1.
TwoUsers ==
    LET password == <<"s","e","c","r","e","t">>
        bob == RegistrationModel(<<"B","o","b">>, password, None)
        eve == RegistrationModel(<<"E","v","e">>, password, None)
    IN
    /\ now = 1
    /\ ops = 0
    /\ users = {user_row(1, bob.username, hash_password(bob.password, "saltA"),
                         bob.nickname),
                user_row(2, eve.username, hash_password(eve.password, "saltA"),
                         eve.nickname)}
    /\ user_seq = 2
    /\ \E owner \in [Tokens -> 0..2] :
         sessions = {session_row(t, owner[t], "1.2.3.4",
                                 IF owner[t] = 1 THEN SESSION_TTL ELSE 1) :
                     t \in {x \in Tokens : owner[x] # 0}}
    /\ pc = [p \in Procs |-> "idle"]
    /\ loc = [p \in Procs |-> Blank]
    /\ accepted = {<< <<"B","o","b">>, password>>, << <<"E","v","e">>, password>>}

\* A function of auth.py or only_allow_self_action is called.
call_start(p) ==
    \/ \E token \in BearerTokens : call_validate_session_id(p, token)
    \/ \E token \in BearerTokens : get_user_id_from_session(p, token)
    \/ \E u \in UserIds, token \in BearerTokens :
         only_allow_self_action(p, u, token)
    \/ \E token \in BearerTokens : call_delete_session(p, token)
    \/ \E u \in UserIds : delete_all_sessions_for_user(p, <<"int", u>>)
    \/ \E token \in BearerTokens :
         delete_all_sessions_for_user(p, <<"str", token>>)

\* Worker p is the one that takes the next call: the first that has had
\* none, or the first that has finished one when all have had one.
FirstFree(p) ==
    IF \E q \in Procs : pc[q] = "idle"
    THEN pc[p] = "idle" /\ \A q \in Procs : q < p => pc[q] # "idle"
    ELSE pc[p] = "done" /\ \A q \in Procs : q < p => pc[q] # "done"

\* Concurrent direct calls of the session functions at one instant.
CallNext ==
    \E p \in Procs :
         \/ ops < MaxOps /\ FirstFree(p) /\ call_start(p)
         \/ delete_all_resolve(p)
         \/ delete_all_delete(p)

CallSpec == TwoUsers /\ [][CallNext]_vars

\* Users deleted while logins of "Bob" are in progress, "Bob" registered and
\* logged in.
DeleteNext ==
    \E p \in Procs :
       \/ ops < MaxOps /\ login_start(p, ReturningUsernames, RegisterPasswords)
       \/ ops < MaxOps /\ \E user_id \in UserIds : obliterate_user(p, user_id)
       \/ create_session_select(p)
       \/ generate_session_id(p)
       \/ create_session_insert(p)
       \/ obliterate_purge(p)
       \/ obliterate_delete(p)

DeleteSpec == LoggedIn /\ [][DeleteNext]_vars

\* Concurrent logins, requests behind security_bridge and calls of
\* delete_all_sessions_for_user at one instant, "Bob" registered and logged
\* in; the logins come from one address and the requests from another.
LiveNext ==
    \E p \in Procs :
       \/ ops < MaxOps /\ \E raw \in ReturningUsernames,
                               password \in RegisterPasswords :
                             login(p, raw, password, "1.2.3.4")
       \/ ops < MaxOps /\ \E token \in BearerTokens :
                             request(p, token, "5.6.7.8")
       \/ ops < MaxOps /\ \E user_id \in UserIds :
                             delete_all_sessions_for_user(p, <<"int", user_id>>)
       \/ ops < MaxOps /\ \E token \in Tokens :
                             delete_all_sessions_for_user(p, <<"str", token>>)
       \/ session_step(p)
       \/ delete_all_resolve(p)
       \/ delete_all_delete(p)

\* generate_session_id leaves its loop: the candidate is not in use.
LoopExit(p) == generate_session_id(p) /\ pc'[p] # pc[p]

\* A call that has started goes on to its next statement: the worker that
\* runs it is not held back, and the storage engine answers every query.
\* secrets.token_hex draws its values at random, so a value that is not in
\* use again and again is drawn at last.
Progress ==
    \A p \in Procs :
       /\ WF_vars(session_step(p) \/ delete_all_resolve(p)
                                  \/ delete_all_delete(p))
       /\ SF_vars(LoopExit(p))

LiveSpec == LoggedIn /\ [][LiveNext]_vars /\ Progress

\* The endpoints that end sessions: logout, logout_all and delete_user.
Routes == {"logout", "logout_all", "delete_user"}

\* Concurrent requests to the endpoints that end sessions, "Bob" registered
\* and logged in.
BridgeNext ==
    \E p \in Procs :
       \/ ops < MaxOps /\ \E token \in Tokens, route \in Routes :
                             routed_request(p, token, "1.2.3.4", route)
       \/ validate_session_id(p)
       \/ refresh_session(p)
       \/ refresh_select(p)
       \/ refresh_check(p)
       \/ refresh_update(p)
       \/ delete_session(p)
       \/ delete_all_resolve(p)
       \/ delete_all_delete(p)
       \/ delete_user(p)
       \/ obliterate_purge(p)
       \/ obliterate_delete(p)

BridgeSpec == LoggedIn /\ [][BridgeNext]_vars

\* One call more than MaxOps: a refresh in progress, a logout and a login.
MaxAuditOps == MaxOps + 1

\* Concurrent logins from 5.6.7.8 and requests with the token of the session
\* that was created from 1.2.3.4, "Bob" registered and logged in.
AuditNext ==
    \E p \in Procs :
       \/ ops < MaxAuditOps /\ \E raw \in ReturningUsernames,
                                    password \in RegisterPasswords :
                                  login(p, raw, password, "5.6.7.8")
       \/ ops < MaxAuditOps /\ \E route \in Endpoints :
                                  routed_request(p, token_hex(1), "1.2.3.4", route)
       \/ session_step(p)

AuditSpec == LoggedIn /\ [][AuditNext]_vars

\* Every operation that writes the sessions, one after the other, "Bob" and
\* "Eve" registered and any of the tokens theirs: logins of "Bob" and
\* requests to the protected endpoints with any token.
TouchNext ==
    \E p \in Procs :
       \/ /\ ops < MaxOps /\ Quiet(p)
          /\ \E raw \in ReturningUsernames, password \in RegisterPasswords :
                login(p, raw, password, "5.6.7.8")
       \/ /\ ops < MaxOps /\ Quiet(p)
          /\ \E token \in Tokens, route \in Endpoints \cup Routes :
                routed_request(p, token, "5.6.7.8", route)
       \/ session_step(p)
       \/ delete_all_resolve(p)
       \/ delete_all_delete(p)
       \/ delete_user(p)
       \/ obliterate_purge(p)
       \/ obliterate_delete(p)

TouchSpec == TwoUsers /\ [][TouchNext]_vars

\* Time passing, logins and direct calls of the session functions, one
\* after the other, "Bob" registered and logged in at time 0.
LazyNext ==
    \/ tick
    \/ \E p \in Procs :
         \/ /\ ops < MaxOps /\ Quiet(p)
            /\ \E raw \in ReturningUsernames, password \in RegisterPasswords :
                  login(p, raw, password, "5.6.7.8")
         \/ /\ ops < MaxOps /\ Quiet(p)
            /\ \E token \in Tokens :
                  \/ call_validate_session_id(p, token)
                  \/ get_user_id_from_session(p, token)
                  \/ call_delete_session(p, token)
                  \/ delete_all_sessions_for_user(p, <<"str", token>>)
         \/ /\ ops < MaxOps /\ Quiet(p)
            /\ \E user_id \in UserIds :
                  delete_all_sessions_for_user(p, <<"int", user_id>>)
         \/ create_session_select(p)
         \/ generate_session_id(p)
         \/ create_session_insert(p)
         \/ delete_all_resolve(p)
         \/ delete_all_delete(p)

LazySpec == LoggedIn /\ [][LazyNext]_vars

\* ------------------------------------------------------------------ claims

\* Request p has its response.
Done(p) == pc[p] = "done"

\* The IP audit trail stored in a session row.
IpAudit(r) == json_loads(r.user_ip)

NoDuplicates(l) == \A i, j \in DOMAIN l : l[i] = l[j] => i = j

FailedLogin(p) ==
    Done(p) /\ loc[p].op = "login" /\ loc[p].status = HTTP_400_BAD_REQUEST

\* C2: a failed login is indistinguishable between its sub-cases: any two
\* refused logins, whether the username is unknown or the password is wrong,
\* show the caller the same status and the same message.
C2_FailedLoginIndistinguishable ==
    \A p, q \in Procs :
      (FailedLogin(p) /\ FailedLogin(q)) =>
        /\ loc[p].status = loc[q].status
        /\ loc[p].detail = loc[q].detail

\* The steps of refresh_session, and the step on which it returns.
RefreshSteps ==
    {"refresh_session", "refresh_select", "refresh_check", "refresh_update"}

RefreshReturns(p) == pc[p] \in RefreshSteps /\ pc'[p] \notin RefreshSteps

\* C3: an expired session is never revived: once the clock has reached a
\* session's stored expiry, no refresh returns true for its token and its
\* stored expiry is never written again.
C3_ExpiredNeverRevived ==
    [][ /\ \A r \in sessions :
             r.expiry <= now =>
               \A r2 \in sessions' : r2.id = r.id => r2.expiry = r.expiry
        /\ \A p \in Procs :
             (/\ RefreshReturns(p)
              /\ \E r \in SessionsWithId(loc[p].session_id) : r.expiry <= now)
             => loc'[p].refreshed = "False" ]_vars

\* C4: refresh_session returns false and leaves every session unchanged when
\* validate_session_id would not accept its token at that instant (no session
\* with this id, or stored expiry <= now).
C4_RefreshOnlyWhenValid ==
    [][ \A p \in Procs :
          (RefreshReturns(p) /\ ~session_is_valid(loc[p].session_id, now))
          => /\ loc'[p].refreshed = "False"
             /\ sessions' = sessions ]_vars

\* C5: the stored expiry of a session never decreases.
C5_ExpiryNeverDecreases ==
    [][ \A r \in sessions : \A r2 \in sessions' :
          r2.id = r.id => r2.expiry >= r.expiry ]_vars

\* C6: an IP once stored in a session's ip_audit stays in it while the
\* session row exists.
C6_AuditEntriesKept ==
    [][ \A r \in sessions : \A r2 \in sessions' :
          r2.id = r.id => Range(IpAudit(r)) \subseteq Range(IpAudit(r2)) ]_vars

\* C7: in every reachable state the ip_audit list of every session contains
\* no IP string twice.
C7_NoDuplicateIPs == \A r \in sessions : NoDuplicates(IpAudit(r))

\* C7 happens: a session has been used from both addresses and two requests
\* have refreshed it, so one refresh met a list that held its address.
C7_Witness ==
    /\ \E r \in sessions : Len(IpAudit(r)) = 2
    /\ \E p, q \in Procs :
         /\ p # q /\ Done(p) /\ Done(q)
         /\ loc[p].refreshed = "True" /\ loc[q].refreshed = "True"
         /\ loc[p].session_id = loc[q].session_id

\* C8: for non-overlapping refreshes ip_audit is append-only in order of
\* first use: a successful refresh_session(T, ip) stores the previous list
\* with ip added as the last element if it was absent, and the identical
\* list if it was present.
C8_AppendOnlyInOrder ==
    [][ \A p \in Procs :
          (pc[p] = "refresh_update" /\ loc'[p].refreshed = "True") =>
            \A r \in SessionsWithId(loc[p].session_id) :
              \E r2 \in sessions' :
                /\ r2.id = r.id
                /\ IpAudit(r2) = IF loc[p].ip \in Range(IpAudit(r))
                                 THEN IpAudit(r)
                                 ELSE Append(IpAudit(r), loc[p].ip) ]_vars

\* C8 happens: a login from 1.2.3.4 followed by a successful refresh from
\* 5.6.7.8 has stored [1.2.3.4, 5.6.7.8].
C8_Witness ==
    /\ \E r \in sessions : IpAudit(r) = <<"1.2.3.4", "5.6.7.8">>
    /\ \E p \in Procs : Done(p) /\ loc[p].refreshed = "True"
    /\ \E p \in Procs :
         Done(p) /\ loc[p].op = "login" /\ loc[p].status = HTTP_200_OK

\* A login whose INSERT was rejected by the storage engine.
InsertRejected(p) ==
    /\ Done(p) /\ loc[p].op = "login"
    /\ loc[p].status = HTTP_500_INTERNAL_SERVER_ERROR

\* C9: session tokens are unique: no two session rows share an id, and a
\* create_session that returns a token has inserted it under an id no
\* existing row had and has overwritten no existing row, also when two
\* create_session calls pass the in-use check with the same candidate.
C9_TokensUnique ==
    /\ [](\A r1, r2 \in sessions : r1.id = r2.id => r1 = r2)
    /\ [][ \A p \in Procs :
             (/\ pc[p] = "create_session_insert"
              /\ loc'[p].status = HTTP_200_OK)
             => /\ SessionsWithId(loc[p].session_id) = {}
                /\ sessions \subseteq sessions'
                /\ SessionsWithId(loc[p].session_id)' # {} ]_vars

\* C9 happens: two logins passed the in-use check with the same candidate;
\* one returned the token and the other's INSERT was rejected.
C9_Witness ==
    \E p, q \in Procs :
      /\ InsertRejected(p)
      /\ Done(q) /\ loc[q].op = "login" /\ loc[q].status = HTTP_200_OK
      /\ SessionsWithId(loc[q].session_id) # {}

\* C10: sessions are never deduplicated per user: a successful
\* create_session adds exactly one session under a token no existing session
\* has and leaves the existing sessions as they were, and revoking one token
\* removes that session only.
C10_SessionsIndependent ==
    [][ \A p \in Procs :
          /\ (pc[p] = "create_session_insert" /\ loc'[p].status = HTTP_200_OK)
             => \E r \in sessions' :
                  /\ r.id = loc[p].session_id
                  /\ r.user_id = loc[p].user_id
                  /\ r \notin sessions
                  /\ \A r1 \in sessions : r1.id # r.id
                  /\ sessions' = sessions \cup {r}
          /\ (pc[p] = "delete_session" /\ Done(p)')
             => sessions' = {r \in sessions : r.id # loc[p].session_id} ]_vars

\* C10 happens: a user with two sessions has revoked one of them and the
\* other is still valid.
C10_Witness ==
    \E p, q \in Procs :
      /\ Done(p) /\ loc[p].op = "logout" /\ loc[p].status = HTTP_200_OK
      /\ SessionsWithId(loc[p].session_id) = {}
      /\ Done(q) /\ loc[q].op = "login" /\ loc[q].status = HTTP_200_OK
      /\ loc[q].session_id # loc[p].session_id
      /\ session_is_valid(loc[q].session_id, now)

\* A logout that returned the token it deleted.
Revoked(p) ==
    Done(p) /\ loc[p].op = "logout" /\ loc[p].status = HTTP_200_OK

\* C11 as stated: revocation is permanent: after delete_session(T) has
\* returned T, validate_session_id(T) never accepts T again.
C11_RevocationPermanent ==
    \A p \in Procs : Revoked(p) => ~session_is_valid(loc[p].session_id, now)

\* C11: revocation is immediate and lasts until the token is issued again:
\* delete_session that returns T leaves no row for T; while T has no row,
\* validate_session_id refuses it and refresh_session returns false and
\* stores nothing, also a refresh that was in flight when the delete
\* committed; a row for T appears again only by the INSERT of a
\* create_session that drew T.
C11_RevokedUntilReissued ==
    [][ /\ \A p \in Procs :
             (pc[p] = "delete_session" /\ Done(p)'
              /\ loc'[p].status = HTTP_200_OK)
             => SessionsWithId(loc[p].session_id)' = {}
        /\ \A T \in Tokens :
             (SessionsWithId(T) = {} /\ SessionsWithId(T)' # {})
             => \E q \in Procs :
                  /\ pc[q] = "create_session_insert" /\ Done(q)'
                  /\ loc[q].session_id = T
        /\ \A q \in Procs :
             (/\ pc[q] = "validate_session_id" /\ pc'[q] # pc[q]
              /\ SessionsWithId(loc[q].session_id) = {})
             => loc'[q].status = HTTP_401_UNAUTHORIZED
        /\ \A q \in Procs :
             (RefreshReturns(q) /\ SessionsWithId(loc[q].session_id) = {})
             => /\ loc'[q].refreshed = "False"
                /\ sessions' = sessions ]_vars

\* C11 happens: a logout has deleted a session while another request with
\* the same token was past validate_session_id; that request's refresh
\* returned false and the token has no row.
C11_Witness ==
    \E p, q \in Procs :
      /\ Revoked(p)
      /\ Done(q) /\ loc[q].op = "import_internal_data"
      /\ loc[q].session_id = loc[p].session_id
      /\ loc[q].refreshed = "False"
      /\ SessionsWithId(loc[p].session_id) = {}

\* The bearer token T is empty, names no session, or names a session whose
\* expiry is at or before the clock.
NotLive(T) ==
    \/ Len(T) = 0
    \/ SessionsWithId(T) = {}
    \/ \A r \in SessionsWithId(T) : r.expiry <= now

\* C15: security_bridge answers 401 whenever the bearer token is empty,
\* names no session or names a session with expiry <= now, and then it
\* changes no session and does not call refresh_session.
C15_UnauthenticatedChangesNothing ==
    [][ \A p \in Procs :
          (/\ pc[p] = "validate_session_id" /\ pc'[p] # pc[p]
           /\ NotLive(loc[p].session_id))
          => /\ Done(p)'
             /\ loc'[p].status = HTTP_401_UNAUTHORIZED
             /\ loc'[p].refreshed = "not called"
             /\ sessions' = sessions ]_vars

\* C15 happens: a request was refused with 401 for a token whose session is
\* stored and has reached its expiry, and another for the empty token.
C15_Witness ==
    \E p, q \in Procs :
      /\ Done(p) /\ loc[p].status = HTTP_401_UNAUTHORIZED
      /\ \E r \in SessionsWithId(loc[p].session_id) : r.expiry <= now
      /\ Done(q) /\ loc[q].status = HTTP_401_UNAUTHORIZED
      /\ loc[q].session_id = <<>>

\* C16: every security_bridge call that returns success has extended the
\* session and recorded the caller: when it hands over to the endpoint, the
\* session of its token is stored with the expiry this call computed
\* (its now + 14 days) and with the caller's address in its ip_audit.
C16_SuccessMeansRefreshed ==
    [][ \A p \in Procs :
          RefreshReturns(p) =>
            \E r \in sessions' :
              /\ r.id = loc[p].session_id
              /\ r.expiry = loc[p].expiry
              /\ loc[p].ip \in Range(IpAudit(r)) ]_vars

Called(p, op) == ops' = ops + 1 /\ FirstFree(p) /\ loc'[p].op = op

\* Worker p holds the result of a call of delete_session.
Deleted(p) == Done(p) /\ loc[p].op = "delete_session"

\* C12: delete_session returns the token when a row with that id existed,
\* and that row, and no other, is then gone; when no row has the id it
\* returns the empty string and the sessions are unchanged.  A second call
\* with a token a first call returned cannot find the row again.
C12_DeleteSessionResult ==
    [][\A p \in Procs : Called(p, "delete_session") =>
         LET T == loc'[p].session_id IN
         /\ Done(p)'
         /\ IF SessionsWithId(T) # {}
            THEN /\ loc'[p].returned = <<"str", T>>
                 /\ T # <<>>
                 /\ sessions' = sessions \ SessionsWithId(T)
                 /\ \A r \in sessions' : r.id # T
            ELSE /\ loc'[p].returned = <<"str", <<>> >>
                 /\ sessions' = sessions
         /\ (\E q \in Procs \ {p} :
               /\ Deleted(q)
               /\ loc[q].returned = <<"str", T>>)
            => loc'[p].returned = <<"str", <<>> >>
         /\ UNCHANGED <<users, user_seq, now>>]_vars

\* C12 witness: delete_session was called twice with the same token; one
\* call returned the token and the other the empty string.
C12_Witness ==
    \E p, q \in Procs : \E T \in Tokens :
        /\ Deleted(p) /\ loc[p].session_id = T
        /\ loc[p].returned = <<"str", T>>
        /\ Deleted(q) /\ loc[q].session_id = T
        /\ loc[q].returned = <<"str", <<>> >>

\* The sessions of user u.
SessionsOfUser(u) == {r \in sessions : r.user_id = u}

\* Worker p holds the result of delete_all_sessions_for_user(u), called with
\* the user id u.
DeletedAllOf(p, u) ==
    /\ Done(p) /\ loc[p].op = "delete_all_sessions_for_user"
    /\ loc[p].session_id = <<>> /\ loc[p].user_id = u

\* C13: the DELETE of delete_all_sessions_for_user for user u removes
\* exactly the sessions whose user_id is u and leaves every other session as
\* it was; the call returns the number of sessions removed; after it no
\* token that belonged to u passes validate_session_id.
C13_DeleteAllForUser ==
    [][\A p \in Procs : (pc[p] = "delete_all_delete" /\ Done(p)') =>
         LET u == loc[p].user_id
             removed == SessionsOfUser(u)
         IN
         /\ sessions' = sessions \ removed
         /\ \A r \in sessions : r.user_id # u => r \in sessions'
         /\ loc'[p].returned = <<"int", Cardinality(removed)>>
         /\ \A r \in removed : ~session_is_valid(r.id, now)'
         /\ UNCHANGED <<users, user_seq, now>>]_vars

\* C13 witness: delete_all_sessions_for_user(1) removed Bob's session and
\* returned 1, a second call found none and returned 0, and Eve's session
\* is still stored.
C13_Witness ==
    \E p, q \in Procs :
        /\ DeletedAllOf(p, 1) /\ loc[p].returned = <<"int", 1>>
        /\ DeletedAllOf(q, 1) /\ loc[q].returned = <<"int", 0>>
        /\ SessionsOfUser(1) = {}
        /\ SessionsOfUser(2) # {}

\* Worker p holds the result of delete_all_sessions_for_user(T), called with
\* the token T.
DeletedAllByToken(p, T) ==
    /\ Done(p) /\ loc[p].op = "delete_all_sessions_for_user"
    /\ loc[p].session_id = T /\ T # <<>>

\* C14: delete_all_sessions_for_user called with a token T first looks up
\* the owner of T, changing nothing; when no session has the id T the call
\* ends there, returns 0 and deletes nothing; otherwise its DELETE removes
\* exactly the sessions of that owner, T's own session is gone after it, and
\* the call returns the number of sessions removed.
C14_DeleteAllByToken ==
    [][\A p \in Procs :
         LET T == loc[p].session_id IN
         /\ (pc[p] = "delete_all_resolve" /\ pc'[p] # pc[p]) =>
              /\ sessions' = sessions
              /\ IF SessionsWithId(T) = {}
                 THEN Done(p)' /\ loc'[p].returned = <<"int", 0>>
                 ELSE /\ pc'[p] = "delete_all_delete"
                      /\ \A r \in SessionsWithId(T) :
                            loc'[p].user_id = r.user_id
         /\ (pc[p] = "delete_all_delete" /\ T # <<>> /\ Done(p)') =>
              /\ sessions' = sessions \ SessionsOfUser(loc[p].user_id)
              /\ \A r \in sessions' : r.id # T
              /\ loc'[p].returned =
                    <<"int", Cardinality(SessionsOfUser(loc[p].user_id))>>]_vars

\* C14 witness: a call with a token of Bob removed both of Bob's sessions,
\* and a call with a token that then had no session returned 0.
C14_Witness ==
    \E p, q \in Procs : \E T, U \in Tokens :
        /\ DeletedAllByToken(p, T) /\ loc[p].returned = <<"int", 2>>
        /\ loc[p].user_id = 1
        /\ DeletedAllByToken(q, U) /\ loc[q].returned = <<"int", 0>>
        /\ loc[q].user_id = 0
        /\ sessions = {}

\* C18: only_allow_self_action returns normally exactly when the owner of
\* the presented token is attempted_user_id, fails with HTTP 403 in every
\* other case, and changes no state.
C18_SelfOrForbidden ==
    [][\A p \in Procs : Called(p, "only_allow_self_action") =>
         LET T == loc'[p].session_id
             self == \E r \in SessionsWithId(T) : r.user_id = loc'[p].user_id
         IN
         /\ Done(p)'
         /\ loc'[p].returned = IF self THEN <<"None", 0>>
                               ELSE <<"HTTPException", HTTP_403_FORBIDDEN>>
         /\ UNCHANGED <<users, user_seq, sessions, now>>]_vars

\* Worker p holds the result of a call of get_user_id_from_session.
Resolved(p) == Done(p) /\ loc[p].op = "get_user_id_from_session"

\* C19: get_user_id_from_session raises ValueError exactly when no session
\* has the id; otherwise it returns the user_id of the session with that
\* id, whether or not the session has expired; it changes no state.
C19_OwnerByExistence ==
    [][\A p \in Procs : Called(p, "get_user_id_from_session") =>
         LET T == loc'[p].session_id IN
         /\ Done(p)'
         /\ loc'[p].returned[1] = "ValueError" <=> SessionsWithId(T) = {}
         /\ \A r \in SessionsWithId(T) :
               loc'[p].returned = <<"int", r.user_id>>
         /\ UNCHANGED <<users, user_seq, sessions, now>>]_vars

\* C19 witness: the owner of an expired session was returned, and a call
\* with a token that has no session raised ValueError.
C19_Witness ==
    \E p, q \in Procs : \E T, U \in Tokens :
        /\ Resolved(p) /\ loc[p].session_id = T
        /\ \E r \in SessionsWithId(T) :
              /\ r.expiry <= now
              /\ loc[p].returned = <<"int", r.user_id>>
        /\ Resolved(q) /\ loc[q].session_id = U
        /\ SessionsWithId(U) = {}
        /\ loc[q].returned[1] = "ValueError"

\* The steps of create_session and of create_user.
CreateSteps ==
    {"create_session_select", "generate_session_id", "create_session_insert",
     "create_user_select", "create_user_insert"}

\* Worker p takes a step of its request or call.
Steps(p) == pc'[p] # pc[p] \/ loc'[p] # loc[p]

\* C17: the expiry or the ip_audit of a session that exists changes only in
\* the UPDATE of refresh_session, run for that session's id by a request
\* that security_bridge let pass validate_session_id.  The steps of
\* create_session and create_user and a failing security_bridge keep every
\* existing session as it is; validate_session_id and
\* get_user_id_from_session change no stored state at all.
C17_OnlyRefreshChangesSession ==
    [][/\ \A r \in sessions : \A s \in sessions' :
            (s.id = r.id /\ (s.expiry # r.expiry \/ s.user_ip # r.user_ip)) =>
               \E p \in Procs :
                  /\ pc[p] = "refresh_update" /\ Steps(p)
                  /\ loc[p].op = "request"
                  /\ loc[p].session_id = r.id
       /\ \A p \in Procs :
            /\ (pc[p] \in CreateSteps /\ Steps(p)) => sessions \subseteq sessions'
            /\ (pc[p] = "validate_session_id" /\ Steps(p)) =>
                  /\ UNCHANGED <<users, user_seq, sessions>>
                  /\ loc'[p].status = HTTP_401_UNAUTHORIZED => Done(p)'
            /\ (ops' = ops + 1 /\ Done(p)' /\ Steps(p)
                  /\ loc'[p].op \in {"validate_session_id",
                                     "get_user_id_from_session"}) =>
                  UNCHANGED <<users, user_seq, sessions, now>>]_vars

\* C17 witness: a session was refreshed by a request, and a direct call of
\* get_user_id_from_session for it has returned its owner with the session
\* as the refresh left it.
C17_Witness ==
    \E p, q \in Procs : \E r \in sessions :
        /\ Done(p) /\ loc[p].op \in Endpoints /\ loc[p].refreshed = "True"
        /\ loc[p].session_id = r.id
        /\ r.expiry > SESSION_TTL
        /\ Resolved(q) /\ loc[q].session_id = r.id
        /\ loc[q].returned = <<"int", r.user_id>>

\* Login p was refused by create_session with the given message.
LoginRefused(p, detail) ==
    /\ Done(p) /\ loc[p].op = "login"
    /\ loc[p].status = HTTP_400_BAD_REQUEST /\ loc[p].detail = detail

\* C21: when create_session's SELECT finds no user with the username, or
\* the password does not verify against the stored hash, the call fails
\* there with a ValueError (HTTP 400) and the step changes neither the users
\* nor the sessions.
C21_FailedLoginChangesNothing ==
    [][\A p \in Procs : (pc[p] = "create_session_select" /\ Steps(p)) =>
         LET rows == UsersNamed(loc[p].username)
             invalid == \/ rows = {}
                        \/ \E row \in rows :
                              ~bcrypt_checkpw(encode_utf8(loc[p].password),
                                              row.password)
         IN
         /\ UNCHANGED <<users, user_seq, sessions>>
         /\ invalid =>
              /\ Done(p)'
              /\ loc'[p].status = HTTP_400_BAD_REQUEST
              /\ loc'[p].session_id = <<>>
         /\ ~invalid => pc'[p] = "generate_session_id"]_vars

\* C21 witness: one login was refused for its username and another for its
\* password, and the session stored before them is the only one.
C21_Witness ==
    \E p, q \in Procs :
        /\ LoginRefused(p, "Failed to create session: Invalid username.")
        /\ LoginRefused(q, "Failed to create session: Invalid password.")
        /\ Cardinality(sessions) = 1
        /\ Cardinality(users) = 1

\* No session expires later than 14 days from the given time.
WithinTTL(t) == \A r \in sessions : r.expiry <= t + SESSION_TTL

\* C22: refresh_session computes the new expiry as its reading of the clock
\* plus 1209600 seconds, and when its UPDATE changes the row (it returns
\* True) the row holds that value, whatever expiry it held before; in every
\* state every session's expiry is at most the current time plus 14 days.
C22_SlidingExpiry ==
    [][/\ WithinTTL(now) /\ WithinTTL(now)'
       /\ \A p \in Procs :
            /\ (pc[p] = "refresh_session" /\ Steps(p)) =>
                  loc'[p].expiry = now + SESSION_TTL
            /\ (pc[p] \in {"refresh_select", "refresh_check"} /\ Steps(p)
                  /\ pc'[p] \in RefreshSteps) =>
                  loc'[p].expiry = loc[p].expiry
            /\ (pc[p] = "refresh_update" /\ Steps(p)
                  /\ loc'[p].refreshed = "True") =>
                  \E r \in sessions' :
                     /\ r.id = loc[p].session_id
                     /\ r.expiry = loc[p].expiry
                     /\ r.expiry <= now + SESSION_TTL]_vars

\* C22 witness: a session refreshed twice, the second time after the clock
\* moved, expires 14 days after that reading and not 28 days after the
\* first.
C22_Witness ==
    \E p, q \in Procs : \E r \in sessions :
        /\ p # q /\ now > 0 /\ now < SESSION_TTL
        /\ Done(p) /\ loc[p].refreshed = "True" /\ loc[p].session_id = r.id
        /\ Done(q) /\ loc[q].refreshed = "True" /\ loc[q].session_id = r.id
        /\ r.expiry = now + SESSION_TTL

\* Registration p failed at the INSERT: the engine rejected the username.
UserInsertRejected(p) ==
    /\ Done(p) /\ loc[p].op = "register"
    /\ loc[p].status = HTTP_500_INTERNAL_SERVER_ERROR

\* C23: no two rows of users have usernames that are equal after trimming
\* and lower-casing.
C23_UsernamesUnique ==
    \A u, v \in users :
        NormalForm(u.username) = NormalForm(v.username) => u = v

\* C23 witness: two registrations of spellings of one name both passed
\* create_user's SELECT; one inserted its row and the other was rejected at
\* its INSERT.
C23_Witness ==
    \E p, q \in Procs :
        /\ Done(p) /\ loc[p].op = "register"
        /\ loc[p].status = HTTP_201_CREATED
        /\ UserInsertRejected(q)
        /\ Cardinality(users) = 1

\* Registration p ends in this step with the ValueError of create_user,
\* "Username already exists.", and nothing is inserted.
DuplicateUsername(p) ==
    /\ Done(p)'
    /\ loc'[p].status = HTTP_400_BAD_REQUEST
    /\ loc'[p].detail = "Failed to create user: Username already exists."
    /\ UNCHANGED <<users, user_seq>>

\* C24: at each statement of create_user, when a user with the same
\* normalised username is stored the call fails with DuplicateUsername,
\* inserts nothing and leaves the stored user as it is; otherwise its INSERT
\* adds exactly one row, with a newly generated id, and the call returns
\* that id.
C24_DuplicateOrInserted ==
    [][\A p \in Procs :
         LET exists == \E u \in users :
                          NormalForm(u.username) = NormalForm(loc[p].username)
         IN
         /\ (pc[p] = "create_user_select" /\ Steps(p)) =>
               IF exists THEN DuplicateUsername(p)
               ELSE pc'[p] = "create_user_insert" /\ UNCHANGED <<users, user_seq>>
         /\ (pc[p] = "create_user_insert" /\ Steps(p)) =>
               IF exists THEN DuplicateUsername(p)
               ELSE \E row \in users' :
                      /\ users' = users \cup {row}
                      /\ row.id \notin {u.id : u \in users}
                      /\ row.username = loc[p].username
                      /\ row.password = loc[p].hashed
                      /\ row.nickname = loc[p].nickname
                      /\ Done(p)'
                      /\ loc'[p].status = HTTP_201_CREATED
                      /\ loc'[p].user_id = row.id]_vars

\* The password has a length Login.validate_password accepts.
ValidLength(password) ==
    Len(password) >= PASSWORD_MIN /\ Len(password) <= PASSWORD_MAX

\* Worker p is handed a call or request named op in this step.
Starts(p, op) == ops' = ops + 1 /\ Steps(p) /\ loc'[p].op = op

\* C27: hash_password returns a hash exactly for the passwords of 6..72
\* characters and fails for the others; create_user and a registration go on
\* to the database exactly for those passwords and fail for the others; a
\* user row is inserted only for a password of 6..72 characters.
C27_PasswordLengthEnforced ==
    [][\A p \in Procs :
         /\ Starts(p, "hash_password") =>
               (loc'[p].returned[1] = "str" <=> ValidLength(loc'[p].password))
         /\ Starts(p, "create_user") =>
               (pc'[p] = "create_user_select" <=> ValidLength(loc'[p].password))
         /\ (Steps(p) /\ ops' = ops + 1 /\ pc'[p] = "create_user_select"
               /\ loc'[p].op = "register") => ValidLength(loc'[p].password)
         /\ (pc[p] = "create_user_insert" /\ Steps(p) /\ users' # users) =>
               ValidLength(loc[p].password)]_vars

\* C30: for passwords of 6..72 characters, hash_password returns a hash;
\* verify_password of a password against the hash of a password is true
\* when they are the same password and false when they differ; and a second
\* hash_password of a password returns a string that differs from the
\* first.
C30_HashRoundTrip ==
    [][\A p \in Procs :
         /\ (Starts(p, "hash_password") /\ ValidLength(loc'[p].password)) =>
               /\ loc'[p].returned[1] = "str"
               /\ \A q \in Procs \ {p} :
                     (Hashed(q) /\ loc[q].password = loc'[p].password) =>
                        loc'[p].returned # loc[q].returned
         /\ (Starts(p, "verify_password") /\ ValidLength(loc'[p].password)) =>
               \A q \in Procs \ {p} :
                  (/\ Hashed(q) /\ loc[q].returned[2] = loc'[p].hashed
                   /\ ValidLength(loc[q].password)) =>
                     loc'[p].returned =
                        <<"bool", loc'[p].password = loc[q].password>>]_vars

\* The normal form n of a username is one the specification allows: 1..50
\* characters, each a letter, a digit, '-', '_' or '.'.
AllowedName(n) ==
    /\ Len(n) >= USERNAME_MIN /\ Len(n) <= USERNAME_MAX
    /\ \A i \in DOMAIN n :
          \/ n[i] \in Range(LOWERCASE) \cup Range(UPPERCASE) \cup Range(DIGITS)
          \/ n[i] \in {"-", "_", "."}

NoNickname(nickname) == nickname = None \/ strip(nickname) = <<>>

\* C26: a registration without a nickname, with a username whose normal
\* form is an allowed name and a password of 6..72 characters, is not
\* rejected by validation; it goes on with the nickname equal to the
\* username as it was sent, and that nickname is the one stored.
C26_NicknameDefaultsToRawUsername ==
    [][\A p \in Procs :
         /\ (Starts(p, "register")
               /\ NoNickname(loc'[p].sent_nickname)
               /\ AllowedName(NormalForm(loc'[p].raw))
               /\ ValidLength(loc'[p].password)) =>
               /\ loc'[p].status # HTTP_422_UNPROCESSABLE
               /\ pc'[p] = "create_user_select" => loc'[p].nickname = loc'[p].raw
         /\ (pc[p] = "create_user_insert" /\ Steps(p) /\ users' # users
               /\ NoNickname(loc[p].sent_nickname)) =>
               \E row \in users' \ users : row.nickname = loc[p].raw]_vars

\* Worker p holds the result of obliterate_user(u), which reports
\* deleted_user_id = u.
Obliterated(p, u) ==
    /\ Done(p) /\ loc[p].op = "obliterate_user"
    /\ loc[p].returned[1] = "dict"
    /\ loc[p].returned[3] = <<"int", u>>

\* C28: every session's user_id is the id of a row of users, and once
\* obliterate_user(u) has reported deleted_user_id = u no session of user u
\* exists, whatever logins of u ran beside it.
C28_UserDeletionDeletesSessions ==
    /\ \A r \in sessions : \E u \in users : u.id = r.user_id
    /\ \A p \in Procs, u \in UserIds :
         Obliterated(p, u) => SessionsOfUser(u) = {}

\* C28 witness: obliterate_user(1) purged the one session "Bob" had and
\* reported deleted_user_id = 1, and a login of "Bob" was answered with a
\* new session: its INSERT was committed after the purge and before the
\* DELETE of the user.
C28_Witness ==
    \E p, q \in Procs :
       /\ Obliterated(p, 1)
       /\ loc[p].returned[2] = 1
       /\ Done(q) /\ loc[q].op = "login" /\ loc[q].status = HTTP_200_OK
       /\ SessionsOfUser(1) = {}
       /\ users = {}

\* Worker p runs a call that has not returned.
InFlight(p) == pc[p] \notin {"idle", "done"}

\* The token values no session has.
Unused == Tokens \ SessionIds

\* C29: a call of create_session, of the functions behind security_bridge
\* (validate_session_id, refresh_session), of delete_session or of
\* delete_all_sessions_for_user that has started returns or fails in the
\* end, unless it is in generate_session_id's loop and every token value is
\* in use; and the value the loop exits with was not in use when it was
\* checked.
C29_OperationsTerminate ==
    /\ \A p \in Procs :
         InFlight(p) ~> (Done(p) \/ (pc[p] = "generate_session_id"
                                        /\ Unused = {}))
    /\ [][\A p \in Procs :
            (pc[p] = "generate_session_id" /\ pc'[p] # pc[p]) =>
               loc'[p].session_id \in Unused]_vars

\* C29 witness: a login was answered with a new session while another
\* token value was in use, so that candidates in use could be drawn.
C29_Witness ==
    \E p \in Procs :
       /\ Done(p) /\ loc[p].op = "login" /\ loc[p].status = HTTP_200_OK
       /\ loc[p].session_id \in SessionIds
       /\ Cardinality(SessionIds) >= 2

\* C31: a request that security_bridge has let through finds its session:
\* delete_user's get_user_id_from_session returns the owner and raises no
\* ValueError, and logout's delete_session returns the token
\* (answer 200), whatever other requests with the token do meanwhile.
C31_AuthenticatedResolves ==
    [][\A p \in Procs :
         /\ (pc[p] = "delete_user" /\ Steps(p)) =>
               /\ pc'[p] = "obliterate_purge"
               /\ \E r \in SessionsWithId(loc[p].session_id) :
                     loc'[p].user_id = r.user_id
         /\ (pc[p] = "delete_session" /\ Steps(p)) =>
               loc'[p].status = HTTP_200_OK]_vars

\* C32: the audit list of every session is not empty, create_session stores
\* the list of the one address it was given, and no step changes the first
\* address of the list of a session: it stays the address the session was
\* created from.
C32_FirstAddressIsCreator ==
    /\ \A r \in sessions : IpAudit(r) # <<>>
    /\ [][/\ \A r \in sessions' : IpAudit(r) # <<>>
          /\ \A p \in Procs :
               (pc[p] = "create_session_insert" /\ Steps(p)) =>
                  \A r \in sessions' \ sessions : IpAudit(r) = <<loc[p].ip>>
          /\ \A r \in sessions, t \in sessions' :
               t.id = r.id => IpAudit(t)[1] = IpAudit(r)[1]]_vars

\* C33: the UPDATE of refresh_session(T, ip) and the DELETE of
\* delete_session(T) leave every session with another id as it is and add
\* none, and no step of any operation changes the user_id of a session.
C33_OnlyTheNamedSession ==
    [][/\ \A p \in Procs :
            (pc[p] \in {"refresh_update", "delete_session"} /\ Steps(p)) =>
               /\ \A r \in sessions :
                     r.id # loc[p].session_id => r \in sessions'
               /\ \A t \in sessions' :
                     t.id # loc[p].session_id => t \in sessions
       /\ \A r \in sessions, t \in sessions' :
            t.id = r.id => t.user_id = r.user_id]_vars

\* C33 witness: a logout with token T had its session refreshed and then
\* deleted, and the session with the other token is stored as it was
\* created.
C33_Witness ==
    \E p \in Procs : \E r \in sessions :
        /\ Done(p) /\ loc[p].op = "logout" /\ loc[p].status = HTTP_200_OK
        /\ loc[p].refreshed = "True"
        /\ loc[p].session_id \notin SessionIds
        /\ r.id # loc[p].session_id
        /\ r.user_ip = json_dumps(<<"1.2.3.4">>)
        /\ r.expiry \in {1, SESSION_TTL}

\* The sessions with id T whose expiry has passed.
Expired(T) == {r \in SessionsWithId(T) : r.expiry <= now}

\* C34: the clock passing an expiry removes no row; delete_session of an
\* expired session deletes it and returns its token,
\* get_user_id_from_session of an expired session returns its owner, and
\* the DELETE of delete_all_sessions_for_user removes and counts every
\* session of the user, expired or not.
C34_LazyExpiration ==
    [][/\ now' # now => sessions' = sessions
       /\ \A p \in Procs :
            /\ (Starts(p, "delete_session")
                  /\ Expired(loc'[p].session_id) # {}) =>
                  /\ loc'[p].returned = <<"str", loc'[p].session_id>>
                  /\ sessions' = sessions \ Expired(loc'[p].session_id)
            /\ (Starts(p, "get_user_id_from_session")
                  /\ Expired(loc'[p].session_id) # {}) =>
                  \A r \in Expired(loc'[p].session_id) :
                     loc'[p].returned = <<"int", r.user_id>>
            /\ (pc[p] = "delete_all_delete" /\ Steps(p)) =>
                  /\ sessions' = sessions \ SessionsOfUser(loc[p].user_id)
                  /\ loc'[p].returned =
                        <<"int", Cardinality(SessionsOfUser(loc[p].user_id))>>]_vars

\* C34 witness: at the instant the first session expired a login created a
\* second one, and delete_all_sessions_for_user then returned 2 and left
\* "Bob" no session: the expired one was counted and deleted with the
\* active one.
C34_Witness ==
    \E p, q \in Procs :
        /\ now = SESSION_TTL
        /\ Done(q) /\ loc[q].op = "login" /\ loc[q].status = HTTP_200_OK
        /\ loc[q].expiry = SESSION_TTL + SESSION_TTL
        /\ Done(p) /\ loc[p].op = "delete_all_sessions_for_user"
        /\ loc[p].returned = <<"int", 2>>
        /\ SessionsOfUser(1) = {}

====
